---- MODULE Spec2Model ----
(***************************************************************************)
(* Model of the namespace-addressed event queue service of                 *)
(* the-anna-project/event (src/unnamed/part_000) together with the event   *)
(* entity it queues (src/unnamed/part_002).                                *)
(*                                                                         *)
(* Strings are sequences of byte values, so that sort.Strings and          *)
(* strings.Join are computed as the code computes them.  The storage       *)
(* backend is an external collaborator; its primitives are modelled from   *)
(* the interface the specification gives for them.                         *)
(***************************************************************************)
EXTENDS Integers, Sequences, FiniteSets, TLC

\* ---------------------------------------------------------------- bounds
\* Number of events the producers have constructed (identifiers 1..MaxID).
MaxID == 3
\* Largest number of retries a configured backoff policy permits.
MaxRetries == 1
\* Largest max handed to Limit.
MaxLimit == 2
\* Longest event list handed to WriteAll.
MaxWrite == 2
\* Largest number of entries the queue of the label-addressed service holds.
MaxFifo == 2
\* Longest label list whose namespace is derived for comparison.
MaxLabels == 2
\* Number of concurrent callers of Boot and Shutdown (each makes one call).
NCallers == 2
\* Number of concurrent callers of Create and Search (each makes one call).
NProcs == 2

\* ---------------------------------------------------------------- state
VARIABLES
    storage,    \* service.storage.Event: [table, queue, store]
    retries,    \* service.backoff: number of retries the policy permits
    last,       \* the last completed call: arguments and what it returned
    kind,       \* service.kind: the setting the service was constructed with
    published,  \* history: the <<identifier, label>> pairs published with
                \* labels and not deleted since
    procs,      \* the concurrent callers: each one's call and position in it
    latch       \* the once latches and closer channels of the services

vars == <<storage, retries, last, kind, published, procs, latch>>

\* What a service that is used by one caller at a time, and is neither booted
\* nor shut down meanwhile, leaves alone.
settings == <<retries, kind, published, procs, latch>>

\* ---------------------------------------------------------------- strings
\* Byte values of the label characters used.
LabelA == <<97>>
LabelB == <<98>>
LabelAB == <<97, 98>>
LabelWildcard == <<42>>

\* Error values (nil and the package's error kinds).
Nil == "nil"
NotFound == "notFoundError"
InvalidExecution == "invalidExecutionError"

\* Lexicographic byte order of Go strings (s < t).
RECURSIVE StrLess(_, _)
StrLess(s, t) ==
    IF t = <<>> THEN FALSE
    ELSE IF s = <<>> THEN TRUE
    ELSE IF Head(s) # Head(t) THEN Head(s) < Head(t)
    ELSE StrLess(Tail(s), Tail(t))

\* Insert label l into the sorted list ls.
RECURSIVE InsertSorted(_, _)
InsertSorted(l, ls) ==
    IF ls = <<>> THEN <<l>>
    ELSE IF StrLess(Head(ls), l) \/ Head(ls) = l
         THEN <<Head(ls)>> \o InsertSorted(l, Tail(ls))
         ELSE <<l>> \o ls

\* sort.Strings(labels)
RECURSIVE SortStrings(_)
SortStrings(labels) ==
    IF labels = <<>> THEN <<>>
    ELSE InsertSorted(Head(labels), SortStrings(Tail(labels)))

\* strings.Join(labels, "")
RECURSIVE Join(_)
Join(labels) ==
    IF labels = <<>> THEN <<>> ELSE Head(labels) \o Join(Tail(labels))

\* Mutant of namespaceFromLabels: the labels are joined as they were passed.
namespaceUnsorted(labels) == Join(labels)

\* service.namespaceFromLabels
namespaceFromLabels(labels) == Join(SortStrings(labels))

\* The label lists callers pass.
LabelArgs == {<<LabelA>>, <<LabelB, LabelA>>, <<LabelWildcard>>}

\* The namespaces those label lists derive.
Namespaces == {namespaceFromLabels(l) : l \in LabelArgs}

\* ---------------------------------------------------------------- events
\* Identifiers of the events the producers hold.
EventIDs == 1..MaxID

\* id.Service.New inside a call: an identifier no constructed event carries;
\* the n-th event built within one call gets the n-th such identifier.
GeneratedID(n) == MaxID + n

\* Fields of the event struct that encoding/json encodes: created, id and
\* payload are all lower-case (unexported), so none is.
ExportedFields == {}

\* event.MarshalJSON: the JSON object of the exported fields.
MarshalJSON(e) == [f \in ExportedFields |-> e[f]]

\* event.UnmarshalJSON into receiver e: the exported fields present in b are
\* set, then the payload is the incoming bytes.
UnmarshalJSON(e, b) ==
    [[f \in DOMAIN e |-> IF f \in DOMAIN b /\ f \in ExportedFields THEN b[f] ELSE e[f]]
        EXCEPT !.payload = b]

\* event.New(config): the entity caches its own serialized form.
New(id) ==
    LET newEvent == [id |-> id, payload |-> <<>>]
    IN  [newEvent EXCEPT !.payload = MarshalJSON(newEvent)]

\* The events the producers hold (each built by New with its own identifier).
Events == {New(i) : i \in EventIDs}

\* ---------------------------------------------------------------- storage
\* The storage backend holds one set (the lookup table), lists keyed by
\* namespace and values keyed by event identifier.  A list exists exactly
\* while it holds an element, so DOMAIN queue is the set of existing lists.
EmptyStorage == [table |-> {}, queue |-> <<>>, store |-> <<>>]

\* The list stored under namespaceKey(ns), empty when it does not exist.
ListOf(st, ns) == IF ns \in DOMAIN st.queue THEN st.queue[ns] ELSE <<>>

\* st with the list of ns set to q (removed when q is empty).
WithList(st, ns, q) ==
    [st EXCEPT !.queue =
        [k \in (IF q = <<>> THEN DOMAIN st.queue \ {ns} ELSE DOMAIN st.queue \cup {ns})
            |-> IF k = ns THEN q ELSE st.queue[k]]]

\* storage.PushToSet(tableKey, ns): duplicates are ignored.
PushToSet(st, ns) == [st EXCEPT !.table = @ \cup {ns}]

\* storage.RemoveFromSet(tableKey, ns): removing an absent member is a no-op.
RemoveFromSet(st, ns) == [st EXCEPT !.table = @ \ {ns}]

\* storage.GetRandomFromSet(tableKey): any member, not found on the empty set
\* (the string returned with the error is empty).
GetRandomFromSet(st) ==
    IF st.table = {} THEN {[err |-> NotFound, val |-> <<>>]}
    ELSE {[err |-> Nil, val |-> ns] : ns \in st.table}

\* storage.PushToList(namespaceKey(ns), id): append at the tail.
PushToList(st, ns, id) == WithList(st, ns, Append(ListOf(st, ns), id))

\* storage.PopFromList(namespaceKey(ns)): take the head, not found when empty.
PopFromList(st, ns) ==
    IF ListOf(st, ns) = <<>> THEN [st |-> st, err |-> NotFound, val |-> 0]
    ELSE [st |-> WithList(st, ns, Tail(ListOf(st, ns))), err |-> Nil,
          val |-> Head(ListOf(st, ns))]

\* storage.GetAllFromList(namespaceKey(ns))
GetAllFromList(st, ns) == ListOf(st, ns)

\* storage.TrimEndOfList(namespaceKey(ns), max): keep the max most recently
\* pushed elements.
TrimEndOfList(st, ns, max) ==
    LET q == ListOf(st, ns)
    IN  IF Len(q) <= max THEN st
        ELSE WithList(st, ns, SubSeq(q, Len(q) - max + 1, Len(q)))

\* storage.Exists(namespaceKey(ns))
Exists(st, ns) == ns \in DOMAIN st.queue

\* storage.Set(eventKey(id), payload): store or overwrite.
Set(st, id, payload) ==
    [st EXCEPT !.store =
        [k \in DOMAIN st.store \cup {id} |-> IF k = id THEN payload ELSE st.store[k]]]

\* storage.Get(eventKey(id)): not found when nothing is stored under the key.
Get(st, id) ==
    IF id \in DOMAIN st.store THEN [err |-> Nil, val |-> st.store[id]]
    ELSE [err |-> NotFound, val |-> <<>>]

\* storage.Remove(eventKey(id)): removing an absent key is a no-op.
Remove(st, id) ==
    [st EXCEPT !.store = [k \in DOMAIN st.store \ {id} |-> st.store[k]]]

\* ---------------------------------------------------------------- service
\* What a call hands back: the storage it leaves, its error, the events it
\* returns, the identifiers it took out of queues (in order), the error of each
\* Search attempt it made (in order) and the namespace its last attempt used.
Outcome(st, err, events, popped, errs, namespace) ==
    [st |-> st, err |-> err, events |-> events, popped |-> popped,
     errs |-> errs, namespace |-> namespace]

\* Mutant of Create: the identifier is pushed only when the namespace has no
\* queue yet.
CreateOncePerNamespace(st, event, labels) ==
    LET namespace == namespaceFromLabels(labels)
    IN  IF namespace = LabelWildcard
        THEN Outcome(st, InvalidExecution, <<>>, <<>>, <<>>, namespace)
        ELSE LET st1 == PushToSet(st, namespace)
                 st2 == IF Exists(st1, namespace) THEN st1
                        ELSE PushToList(st1, namespace, event.id)
                 st3 == Set(st2, event.id, event.payload)
             IN  Outcome(st3, Nil, <<>>, <<>>, <<>>, namespace)

\* Mutant of Create: the payload is not stored.
CreateWithoutPayload(st, event, labels) ==
    LET namespace == namespaceFromLabels(labels)
    IN  IF namespace = LabelWildcard
        THEN Outcome(st, InvalidExecution, <<>>, <<>>, <<>>, namespace)
        ELSE LET st1 == PushToSet(st, namespace)
                 st2 == PushToList(st1, namespace, event.id)
             IN  Outcome(st2, Nil, <<>>, <<>>, <<>>, namespace)

\* service.Create
Create(st, event, labels) ==
    LET namespace == namespaceFromLabels(labels)
    IN  IF namespace = LabelWildcard
        THEN Outcome(st, InvalidExecution, <<>>, <<>>, <<>>, namespace)
        ELSE LET st1 == PushToSet(st, namespace)
                 st2 == PushToList(st1, namespace, event.id)
                 st3 == Set(st2, event.id, event.payload)
             IN  Outcome(st3, Nil, <<>>, <<>>, <<>>, namespace)

\* Mutant of Delete: the identifier is also taken out of the namespace queue.
DeleteUnqueues(st, event, labels) ==
    LET namespace == namespaceFromLabels(labels)
    IN  IF namespace = LabelWildcard
        THEN Outcome(st, InvalidExecution, <<>>, <<>>, <<>>, namespace)
        ELSE Outcome(WithList(Remove(st, event.id), namespace,
                              SelectSeq(ListOf(st, namespace), LAMBDA x : x # event.id)),
                     Nil, <<>>, <<>>, <<>>, namespace)

\* service.Delete
Delete(st, event, labels) ==
    LET namespace == namespaceFromLabels(labels)
    IN  IF namespace = LabelWildcard
        THEN Outcome(st, InvalidExecution, <<>>, <<>>, <<>>, namespace)
        ELSE Outcome(Remove(st, event.id), Nil, <<>>, <<>>, <<>>, namespace)

\* service.ExistsAny: [ok, err]
ExistsAny(st, labels) ==
    LET namespace == namespaceFromLabels(labels)
    IN  IF namespace = LabelWildcard
        THEN [ok |-> FALSE, err |-> InvalidExecution]
        ELSE [ok |-> Exists(st, namespace), err |-> Nil]

\* Mutant of Limit: the list is trimmed to one entry less than asked for.
LimitOffByOne(st, max, labels) ==
    LET namespace == namespaceFromLabels(labels)
    IN  IF max < 1 THEN Outcome(st, InvalidExecution, <<>>, <<>>, <<>>, namespace)
        ELSE IF namespace = LabelWildcard
        THEN Outcome(st, InvalidExecution, <<>>, <<>>, <<>>, namespace)
        ELSE LET q == ListOf(st, namespace)
                 st1 == TrimEndOfList(st, namespace, max - 1)
                 kept == ListOf(st1, namespace)
             IN  Outcome(st1, Nil, <<>>, SubSeq(q, 1, Len(q) - Len(kept)), <<>>, namespace)

\* service.Limit
Limit(st, max, labels) ==
    LET namespace == namespaceFromLabels(labels)
    IN  IF max < 1 THEN Outcome(st, InvalidExecution, <<>>, <<>>, <<>>, namespace)
        ELSE IF namespace = LabelWildcard
        THEN Outcome(st, InvalidExecution, <<>>, <<>>, <<>>, namespace)
        ELSE LET q == ListOf(st, namespace)
                 st1 == TrimEndOfList(st, namespace, max)
                 kept == ListOf(st1, namespace)
             IN  Outcome(st1, Nil, <<>>, SubSeq(q, 1, Len(q) - Len(kept)), <<>>, namespace)

\* Mutant of RemoveDrained: the drained namespace stays in the lookup table.
RemoveDrainedKept(st, ok, namespace) == st

\* The cleanup step of service.Search: when ExistsAny reported no queue, the
\* namespace is removed from the lookup table.
RemoveDrained(st, ok, namespace) ==
    IF ~ok THEN RemoveFromSet(st, namespace) ELSE st

\* The closure `action` of service.Search, one attempt: the outcomes it can
\* have from storage st with the captured variable namespace.
SearchAction(st, namespace, labels) ==
    LET picks == IF namespace = LabelWildcard
                 THEN GetRandomFromSet(st)
                 ELSE {[err |-> Nil, val |-> namespace]}
        After(p) ==
            IF p.err # Nil
            THEN Outcome(st, p.err, <<>>, <<>>, <<p.err>>, p.val)
            ELSE
            LET pop == PopFromList(st, p.val) IN
            IF pop.err # Nil
            THEN Outcome(st, pop.err, <<>>, <<>>, <<pop.err>>, p.val)
            ELSE
            LET ex == ExistsAny(pop.st, labels) IN
            IF ex.err # Nil
            THEN Outcome(pop.st, ex.err, <<>>, <<pop.val>>, <<ex.err>>, p.val)
            ELSE
            LET st2 == RemoveDrained(pop.st, ex.ok, p.val)
                rawEvent == Get(st2, pop.val)
            IN  IF rawEvent.err # Nil
                THEN Outcome(st2, rawEvent.err, <<>>, <<pop.val>>, <<rawEvent.err>>, p.val)
                ELSE Outcome(st2, Nil,
                             <<UnmarshalJSON(New(GeneratedID(1)), rawEvent.val)>>,
                             <<pop.val>>, <<Nil>>, p.val)
    IN  {After(p) : p \in picks}

\* backoff.RetryNotify(action, policy): run the action, stop at the first
\* success, otherwise retry while the policy permits (n retries left) and
\* surface the last error.
RECURSIVE RetryNotify(_, _, _, _)
RetryNotify(st, namespace, labels, n) ==
    UNION { IF o.err = Nil \/ n = 0
            THEN {o}
            ELSE { Outcome(r.st, r.err, r.events, o.popped \o r.popped,
                           o.errs \o r.errs, r.namespace)
                   : r \in RetryNotify(o.st, o.namespace, labels, n - 1) }
          : o \in SearchAction(st, namespace, labels) }

\* Mutant of Search: one attempt more than the policy permits.
SearchOneMoreAttempt(st, labels, k) ==
    RetryNotify(st, namespaceFromLabels(labels), labels, k + 1)

\* service.Search under a backoff policy permitting k retries.
Search(st, labels, k) == RetryNotify(st, namespaceFromLabels(labels), labels, k)

\* Mutant of ResolveAll: an identifier that does not resolve is skipped.
RECURSIVE ResolveAllSkipping(_, _, _)
ResolveAllSkipping(st, eventIDs, events) ==
    IF eventIDs = <<>> THEN [err |-> Nil, events |-> events]
    ELSE LET rawEvent == Get(st, Head(eventIDs)) IN
         IF rawEvent.err # Nil THEN ResolveAllSkipping(st, Tail(eventIDs), events)
         ELSE ResolveAllSkipping(st, Tail(eventIDs),
                Append(events,
                       UnmarshalJSON(New(GeneratedID(Len(events) + 1)), rawEvent.val)))

\* The resolution loop of service.SearchAll over eventIDs, events collected so
\* far in events: [err, events].
RECURSIVE ResolveAll(_, _, _)
ResolveAll(st, eventIDs, events) ==
    IF eventIDs = <<>> THEN [err |-> Nil, events |-> events]
    ELSE LET rawEvent == Get(st, Head(eventIDs)) IN
         IF rawEvent.err # Nil THEN [err |-> rawEvent.err, events |-> <<>>]
         ELSE ResolveAll(st, Tail(eventIDs),
                Append(events,
                       UnmarshalJSON(New(GeneratedID(Len(events) + 1)), rawEvent.val)))

\* service.SearchAll
SearchAll(st, labels) ==
    LET namespace == namespaceFromLabels(labels)
    IN  IF namespace = LabelWildcard
        THEN Outcome(st, InvalidExecution, <<>>, <<>>, <<>>, namespace)
        ELSE IF ~ExistsAny(st, labels).ok
        THEN Outcome(st, NotFound, <<>>, <<>>, <<>>, namespace)
        ELSE LET r == ResolveAll(st, GetAllFromList(st, namespace), <<>>)
             IN  Outcome(st, r.err, r.events, <<>>, <<>>, namespace)

\* The drain loop of service.WriteAll: while the namespace exists, one Search
\* and one Delete of the event it returned.
RECURSIVE Drain(_, _, _, _)
Drain(st, labels, k, popped) ==
    IF ~ExistsAny(st, labels).ok
    THEN {Outcome(st, Nil, <<>>, popped, <<>>, namespaceFromLabels(labels))}
    ELSE UNION { IF o.err # Nil
                 THEN {Outcome(o.st, o.err, <<>>, popped \o o.popped, <<>>, o.namespace)}
                 ELSE Drain(Delete(o.st, o.events[1], labels).st, labels, k,
                            popped \o o.popped)
               : o \in Search(st, labels, k) }

\* The fill loop of service.WriteAll: Create for each event in order.
RECURSIVE Fill(_, _, _)
Fill(st, events, labels) ==
    IF events = <<>> THEN st
    ELSE Fill(Create(st, Head(events), labels).st, Tail(events), labels)

\* Mutant of WriteAll: the new events are created although the drain failed.
WriteAllFillsAfterFailure(st, events, labels, k) ==
    LET namespace == namespaceFromLabels(labels)
    IN  IF namespace = LabelWildcard
        THEN {Outcome(st, InvalidExecution, <<>>, <<>>, <<>>, namespace)}
        ELSE { Outcome(Fill(d.st, events, labels), d.err, <<>>, d.popped, <<>>, namespace)
             : d \in Drain(st, labels, k, <<>>) }

\* service.WriteAll
WriteAll(st, events, labels, k) ==
    LET namespace == namespaceFromLabels(labels)
    IN  IF namespace = LabelWildcard
        THEN {Outcome(st, InvalidExecution, <<>>, <<>>, <<>>, namespace)}
        ELSE { IF d.err # Nil THEN d
               ELSE Outcome(Fill(d.st, events, labels), Nil, <<>>, d.popped, <<>>, namespace)
             : d \in Drain(st, labels, k, <<>>) }

\* ---------------------------------------------------------------- calls
\* The elements of a sequence.
Range(seq) == {seq[i] : i \in 1..Len(seq)}

\* The identifiers queued in some namespace.
QueuedIDs(st) == UNION {Range(st.queue[k]) : k \in DOMAIN st.queue}

\* The event lists callers hand to WriteAll: distinct events, at most MaxWrite.
EventLists ==
    {l \in UNION {[1..n -> Events] : n \in 0..MaxWrite} :
        \A i, j \in 1..Len(l) : i # j => l[i] # l[j]}

\* The identifiers of a list of events.
IDsOf(events) == [i \in 1..Len(events) |-> events[i].id]

\* The record of a completed call, as its caller sees it.
Done(op, labels, arg, max, o) ==
    [op |-> op, labels |-> labels, arg |-> arg, max |-> max, err |-> o.err,
     events |-> o.events, popped |-> o.popped, errs |-> o.errs,
     namespace |-> o.namespace, ok |-> FALSE]

\* No call has completed whose result the caller still holds.
NoCall ==
    [op |-> "none", labels |-> <<>>, arg |-> <<>>, max |-> 0, err |-> Nil,
     events |-> <<>>, popped |-> <<>>, errs |-> <<>>, namespace |-> <<>>,
     ok |-> FALSE]

Idle == last = NoCall

\* The kinds a service is constructed with: the namespace-addressed service
\* manages activator or network events, the label-addressed one signal events.
KindActivator == "activator"
KindNetwork == "network"
KindSignal == "signal"

\* The services a collection bundles, and the collection itself.
Services == {KindActivator, KindNetwork}
Targets == Services \cup {"collection"}

\* The two latched operations.
Ops == {"boot", "shutdown"}

\* The internals a constructor sets up: for every sync.Once whether it is done,
\* whether its mutex is held and how often its function has run; for every
\* service how often its closer has been closed; for every collection
\* operation the counter of its wait group.
NewLatch ==
    [done   |-> [o \in Targets \X Ops |-> FALSE],
     m      |-> [o \in Targets \X Ops |-> FALSE],
     ran    |-> [o \in Targets \X Ops |-> 0],
     closed |-> [s \in Services |-> 0],
     wg     |-> [op \in Ops |-> 0]]

\* No caller is inside a call of its own beside the one recorded in last.
NoProcs == <<>>

Init ==
    /\ storage = EmptyStorage
    /\ retries \in 0..MaxRetries
    /\ last = NoCall
    /\ kind = KindNetwork
    /\ published = {}
    /\ procs = NoProcs
    /\ latch = NewLatch

\* A producer publishes an event it holds that is not queued at the moment.
CreateCall ==
    \E event \in Events, labels \in LabelArgs :
        /\ kind \in Services
        /\ Idle
        /\ event.id \notin QueuedIDs(storage)
        /\ LET o == Create(storage, event, labels)
           IN  /\ storage' = o.st
               /\ last' = Done("Create", labels, <<event.id>>, 0, o)
        /\ UNCHANGED settings

\* Delete is called on an event a producer has published and not deleted yet
\* or, by the caller that just got events back, on one of those.
DeleteCall ==
    \E event \in (IF Idle THEN {e \in Events : e.id \in DOMAIN storage.store}
                           ELSE Range(last.events)),
       labels \in LabelArgs :
        /\ kind \in Services
        /\ LET o == Delete(storage, event, labels)
           IN  /\ storage' = o.st
               /\ last' = Done("Delete", labels, <<event.id>>, 0, o)
        /\ UNCHANGED settings

ExistsAnyCall ==
    \E labels \in LabelArgs :
        /\ kind \in Services
        /\ Idle
        /\ LET r == ExistsAny(storage, labels)
               o == Outcome(storage, r.err, <<>>, <<>>, <<>>, namespaceFromLabels(labels))
           IN  /\ storage' = o.st
               /\ last' = [Done("ExistsAny", labels, <<>>, 0, o) EXCEPT !.ok = r.ok]
        /\ UNCHANGED settings

LimitCall ==
    \E max \in 0..MaxLimit, labels \in LabelArgs :
        /\ kind \in Services
        /\ Idle
        /\ LET o == Limit(storage, max, labels)
           IN  /\ storage' = o.st
               /\ last' = Done("Limit", labels, <<>>, max, o)
        /\ UNCHANGED settings

SearchCall ==
    \E labels \in LabelArgs :
        /\ kind \in Services
        /\ Idle
        /\ \E o \in Search(storage, labels, retries) :
               /\ storage' = o.st
               /\ last' = Done("Search", labels, <<>>, 0, o)
        /\ UNCHANGED settings

SearchAllCall ==
    \E labels \in LabelArgs :
        /\ kind \in Services
        /\ Idle
        /\ LET o == SearchAll(storage, labels)
           IN  /\ storage' = o.st
               /\ last' = Done("SearchAll", labels, <<>>, 0, o)
        /\ UNCHANGED settings

\* The new events are events the producers have not published yet: neither
\* queued nor stored at the moment.
WriteAllCall ==
    \E events \in EventLists, labels \in LabelArgs :
        /\ kind \in Services
        /\ Idle
        /\ Range(IDsOf(events)) \cap (QueuedIDs(storage) \cup DOMAIN storage.store) = {}
        /\ \E o \in WriteAll(storage, events, labels, retries) :
               /\ storage' = o.st
               /\ last' = Done("WriteAll", labels, IDsOf(events), 0, o)
        /\ UNCHANGED settings

\* The caller is done with the result of its call.
Return ==
    /\ ~Idle
    /\ last' = NoCall
    /\ UNCHANGED <<storage, settings>>

Next ==
    \/ CreateCall
    \/ DeleteCall
    \/ ExistsAnyCall
    \/ LimitCall
    \/ SearchCall
    \/ SearchAllCall
    \/ WriteAllCall
    \/ Return

Spec == Init /\ [][Next]_vars

\* ------------------------------------------- the label-addressed service
\* The variant of the service that keeps one FIFO queue of serialized events
\* per kind and indexes events by label.  It uses the same storage backend:
\* every key below names a list.
queueKey == <<"queue:", kind>>
eventKey(event) == <<"event:", event.id>>
labelKey(label) == <<"label:", label>>

\* storage.RemoveFromList(key, value): every element equal to value goes.
RemoveFromList(st, key, value) ==
    WithList(st, key, SelectSeq(ListOf(st, key), LAMBDA x : x # value))

\* storage.LengthOfList(key)
LengthOfList(st, key) == Len(ListOf(st, key))

\* storage.Remove(key) of a key that names a list.
RemoveList(st, key) == WithList(st, key, <<>>)

\* service.Publish (the service of src/service.go does the same under its
\* one key): the serialized event is appended to the queue of the kind.
Publish(st, event) ==
    LET b == MarshalJSON(event)
    IN  Outcome(PushToList(st, queueKey, b), Nil, <<>>, <<>>, <<>>, <<>>)

\* The loops of PublishWithLabels: every label is appended to the list of the
\* event, then the identifier to the list of every label.
RECURSIVE PushLabels(_, _, _)
PushLabels(st, event, labels) ==
    IF labels = <<>> THEN st
    ELSE PushLabels(PushToList(st, eventKey(event), Head(labels)), event, Tail(labels))

RECURSIVE PushIDs(_, _, _)
PushIDs(st, event, labels) ==
    IF labels = <<>> THEN st
    ELSE PushIDs(PushToList(st, labelKey(Head(labels)), event.id), event, Tail(labels))

\* Mutant of PublishWithLabels: the identifier is indexed under the first
\* label only.
PublishWithFirstLabel(st, event, labels) ==
    IF Len(labels) = 0
    THEN Outcome(st, InvalidExecution, <<>>, <<>>, <<>>, <<>>)
    ELSE LET st1 == Publish(st, event).st
             st2 == PushLabels(st1, event, labels)
             st3 == PushIDs(st2, event, <<Head(labels)>>)
         IN  Outcome(st3, Nil, <<>>, <<>>, <<>>, <<>>)

\* Mutant of PublishWithLabels: the event is queued before the labels are
\* looked at.
PublishThenCheck(st, event, labels) ==
    LET st1 == Publish(st, event).st
    IN  IF Len(labels) = 0
        THEN Outcome(st1, InvalidExecution, <<>>, <<>>, <<>>, <<>>)
        ELSE LET st2 == PushLabels(st1, event, labels)
                 st3 == PushIDs(st2, event, labels)
             IN  Outcome(st3, Nil, <<>>, <<>>, <<>>, <<>>)

\* service.PublishWithLabels
PublishWithLabels(st, event, labels) ==
    IF Len(labels) = 0
    THEN Outcome(st, InvalidExecution, <<>>, <<>>, <<>>, <<>>)
    ELSE LET st1 == Publish(st, event).st
             st2 == PushLabels(st1, event, labels)
             st3 == PushIDs(st2, event, labels)
         IN  Outcome(st3, Nil, <<>>, <<>>, <<>>, <<>>)

\* Mutant of Consume: the entry is read but stays at the head of the queue.
ConsumePeeking(st) ==
    LET r == PopFromList(st, queueKey)
    IN  IF r.err # Nil THEN Outcome(st, r.err, <<>>, <<>>, <<>>, <<>>)
        ELSE Outcome(st, Nil, <<UnmarshalJSON(New(GeneratedID(1)), r.val)>>,
                     <<r.val>>, <<>>, <<>>)

\* service.Consume: one pop, no retry; the entry is decoded into a new event.
Consume(st) ==
    LET r == PopFromList(st, queueKey)
    IN  IF r.err # Nil THEN Outcome(st, r.err, <<>>, <<>>, <<>>, <<>>)
        ELSE Outcome(r.st, Nil, <<UnmarshalJSON(New(GeneratedID(1)), r.val)>>,
                     <<r.val>>, <<>>, <<>>)

\* The loop of Delete: the identifier leaves the list of every label, and a
\* list left without identifier is removed.
RECURSIVE RemoveIDs(_, _, _)
RemoveIDs(st, event, labels) ==
    IF labels = <<>> THEN st
    ELSE LET st1 == RemoveFromList(st, labelKey(Head(labels)), event.id)
             st2 == IF LengthOfList(st1, labelKey(Head(labels))) # 0 THEN st1
                    ELSE RemoveList(st1, labelKey(Head(labels)))
         IN  RemoveIDs(st2, event, Tail(labels))

\* Mutant of the label-addressed Delete: the lists of the labels are left
\* as they are.
DeleteKeepingIndex(st, event) ==
    LET b == MarshalJSON(event)
        st1 == RemoveFromList(st, queueKey, b)
        labels == GetAllFromList(st1, eventKey(event))
        st3 == RemoveList(st1, eventKey(event))
    IN  Outcome(st3, Nil, <<>>, labels, <<>>, <<>>)

\* service.Delete of the label-addressed service; the outcome names the labels
\* it found the event under.
DeleteWithLabels(st, event) ==
    LET b == MarshalJSON(event)
        st1 == RemoveFromList(st, queueKey, b)
        labels == GetAllFromList(st1, eventKey(event))
        st2 == RemoveIDs(st1, event, labels)
        st3 == RemoveList(st2, eventKey(event))
    IN  Outcome(st3, Nil, <<>>, labels, <<>>, <<>>)

\* service.ExistsAnyWithLabel
ExistsAnyWithLabel(st, label) == [ok |-> Exists(st, labelKey(label)), err |-> Nil]

\* The labels and the label lists callers pass to the label-addressed service.
Labels == {LabelA, LabelB}
LabelLists == {<<>>, <<LabelA>>, <<LabelB, LabelA>>}

\* What a call of the label-addressed service leaves alone beside the history.
internals == <<retries, kind, procs, latch>>

\* The label-addressed service after NewService: it has no backoff.
LabelInit ==
    /\ storage = EmptyStorage
    /\ retries = 0
    /\ last = NoCall
    /\ kind = KindSignal
    /\ published = {}
    /\ procs = NoProcs
    /\ latch = NewLatch

PublishCall ==
    \E event \in Events :
        /\ kind = KindSignal
        /\ Idle
        /\ LengthOfList(storage, queueKey) < MaxFifo
        /\ LET o == Publish(storage, event)
           IN  /\ storage' = o.st
               /\ last' = Done("Publish", <<>>, <<event.id>>, 0, o)
        /\ UNCHANGED <<published, internals>>

\* A producer publishes with labels an event that carries no labels at the
\* moment: one it has not published with labels, or has deleted since.
PublishWithLabelsCall ==
    \E event \in Events, labels \in LabelLists :
        /\ kind = KindSignal
        /\ Idle
        /\ LengthOfList(storage, queueKey) < MaxFifo
        /\ ~Exists(storage, eventKey(event))
        /\ LET o == PublishWithLabels(storage, event, labels)
           IN  /\ storage' = o.st
               /\ last' = Done("PublishWithLabels", labels, <<event.id>>, 0, o)
               /\ published' = IF o.err # Nil THEN published
                                ELSE published \cup {<<event.id, l>> : l \in Range(labels)}
        /\ UNCHANGED internals

ConsumeCall ==
    /\ kind = KindSignal
    /\ Idle
    /\ LET o == Consume(storage)
       IN  /\ storage' = o.st
           /\ last' = Done("Consume", <<>>, <<>>, 0, o)
    /\ UNCHANGED <<published, internals>>

\* Delete is called by a producer on one of its events or, by the caller that
\* just consumed an event, on that one.
DeleteWithLabelsCall ==
    \E event \in (IF Idle THEN Events ELSE Range(last.events)) :
        /\ kind = KindSignal
        /\ LET o == DeleteWithLabels(storage, event)
           IN  /\ storage' = o.st
               /\ last' = Done("Delete", <<>>, <<event.id>>, 0, o)
               /\ published' = IF o.err # Nil THEN published
                                ELSE {p \in published : p[1] # event.id}
        /\ UNCHANGED internals

ExistsAnyWithLabelCall ==
    \E label \in Labels :
        /\ kind = KindSignal
        /\ Idle
        /\ LET r == ExistsAnyWithLabel(storage, label)
               o == Outcome(storage, r.err, <<>>, <<>>, <<>>, <<>>)
           IN  /\ storage' = o.st
               /\ last' = [Done("ExistsAnyWithLabel", <<label>>, <<>>, 0, o)
                              EXCEPT !.ok = r.ok]
        /\ UNCHANGED <<published, internals>>

LabelNext ==
    \/ PublishCall
    \/ PublishWithLabelsCall
    \/ ConsumeCall
    \/ DeleteWithLabelsCall
    \/ ExistsAnyWithLabelCall
    \/ Return

SpecLabel == LabelInit /\ [][LabelNext]_vars

\* A service of either variant: which one, its kind says.
ServiceInit == Init \/ LabelInit
ServiceNext == Next \/ LabelNext
SpecService == ServiceInit /\ [][ServiceNext]_vars

\* ---------------------------------------------------------------- claims
\* The last element of a non-empty sequence.
Last(seq) == seq[Len(seq)]

\* The call just completed was made with the wildcard label.
Wildcard(call) == call.labels = <<LabelWildcard>>

\* Some identifier queued in st has its payload stored.
SomeResolvable(st) == QueuedIDs(st) \cap DOMAIN st.store # {}

\* C1: after a successful Create(e, L), ExistsAny(L) is true; after a
\* successful Search(L) that took the last identifier out of L's queue,
\* ExistsAny(L) is false, the queue of L does not exist and L's namespace is
\* not a member of the lookup table.
C1_CreateThenDrain ==
    /\ (last.op = "Create" /\ last.err = Nil) =>
           (ExistsAny(storage, last.labels) = [ok |-> TRUE, err |-> Nil])
    /\ (last.op = "Search" /\ last.err = Nil /\ ~Wildcard(last)
            /\ ListOf(storage, last.namespace) = <<>>) =>
           /\ ExistsAny(storage, last.labels) = [ok |-> FALSE, err |-> Nil]
           /\ ~Exists(storage, last.namespace)
           /\ last.namespace \notin storage.table

\* C1 witness: a successful Search(L) has just drained L's queue.
C1_Witness ==
    /\ last.op = "Search" /\ last.err = Nil /\ ~Wildcard(last)
    /\ last.popped # <<>>
    /\ ListOf(storage, last.namespace) = <<>>
    /\ last.namespace \notin storage.table

\* C2: after any sequence of completed calls by a single caller, a namespace
\* is a member of the lookup table if and only if its queue is non-empty.
C2_LookupTableInvariant ==
    \A ns \in storage.table \cup DOMAIN storage.queue :
        ns \in storage.table <=> ListOf(storage, ns) # <<>>

\* C3: whenever some namespace has a queued identifier whose payload is
\* stored, a Search with the wildcard label succeeds, returns the event stored
\* under the head identifier of one of the non-empty namespace queues and
\* removes exactly that one identifier.
C3_WildcardSearchSucceeds ==
    [][(last'.op = "Search" /\ Wildcard(last') /\ SomeResolvable(storage)) =>
           /\ last'.err = Nil
           /\ Len(last'.events) = 1
           /\ \E ns \in DOMAIN storage.queue :
                  /\ last'.popped = <<Head(storage.queue[ns])>>
                  /\ ListOf(storage', ns) = Tail(storage.queue[ns])
                  /\ \A other \in DOMAIN storage.queue \ {ns} :
                         ListOf(storage', other) = storage.queue[other]
                  /\ Head(storage.queue[ns]) \in DOMAIN storage.store
                  /\ last'.events[1].payload = storage.store[Head(storage.queue[ns])]
      ]_vars

\* C4: an identifier enqueued by a successful Create whose event is not
\* removed by Delete, Limit or WriteAll stays queued until a Search returns
\* its event: whenever an identifier whose payload is still stored leaves the
\* queues, the step is a Limit, a WriteAll, or a successful Search returning
\* the event resolved from that identifier (also when a Search attempt fails
\* after it has popped).
C4_AtLeastOnce ==
    [][\A id \in QueuedIDs(storage) \ QueuedIDs(storage') :
           id \in DOMAIN storage'.store =>
               \/ last'.op \in {"Limit", "WriteAll"}
               \/ /\ last'.op = "Search" /\ last'.err = Nil
                  /\ id = Last(last'.popped)
      ]_vars

\* C5: per namespace the queue is FIFO: a successful Create(e, L) appends
\* e's identifier at the tail of L's queue, and a Search(L) takes identifiers
\* from the head in queue order, returning the event resolved from the first
\* identifier whose payload is stored.
C5_FIFO ==
    [][/\ (last'.op = "Create" /\ last'.err = Nil) =>
              ListOf(storage', last'.namespace)
                  = Append(ListOf(storage, last'.namespace), last'.arg[1])
       /\ (last'.op = "Search" /\ ~Wildcard(last')) =>
              /\ ListOf(storage, last'.namespace)
                     = last'.popped \o ListOf(storage', last'.namespace)
              /\ last'.err = Nil =>
                     /\ last'.popped # <<>>
                     /\ \A i \in 1..(Len(last'.popped) - 1) :
                            last'.popped[i] \notin DOMAIN storage.store
                     /\ Last(last'.popped) \in DOMAIN storage.store
                     /\ Len(last'.events) = 1
                     /\ last'.events[1].payload = storage.store[Last(last'.popped)]
      ]_vars

\* C5 witness: a successful Search(L) returned the head of a queue that still
\* holds a later identifier.
C5_Witness ==
    /\ last.op = "Search" /\ last.err = Nil /\ ~Wildcard(last)
    /\ Len(last.popped) = 1
    /\ ListOf(storage, last.namespace) # <<>>

\* C6: Delete(e, L) removes only e's stored payload and leaves every queue
\* and the lookup table as they are; a Search(L) attempt that pops an
\* identifier whose payload is gone fails with NotFound, is retried while the
\* policy permits, and no event is returned from that identifier.
C6_DeleteBeforeSearch ==
    [][/\ (last'.op = "Delete" /\ last'.err = Nil) =>
              /\ storage'.queue = storage.queue
              /\ storage'.table = storage.table
              /\ DOMAIN storage'.store = DOMAIN storage.store \ {last'.arg[1]}
              /\ \A id \in DOMAIN storage'.store : storage'.store[id] = storage.store[id]
       /\ (last'.op = "Search" /\ ~Wildcard(last')) =>
              \A i \in 1..Len(last'.popped) :
                  last'.popped[i] \notin DOMAIN storage.store =>
                      /\ last'.errs[i] = NotFound
                      /\ i < Len(last'.errs) \/ i = retries + 1
                      /\ i = Len(last'.errs) => (last'.err = NotFound /\ last'.events = <<>>)
      ]_vars

\* C6 witness: a Search(L) popped an identifier whose payload had been
\* deleted, failed that attempt with NotFound and made another attempt.
C6_Witness ==
    /\ last.op = "Search" /\ ~Wildcard(last)
    /\ last.popped # <<>>
    /\ last.popped[1] \notin DOMAIN storage.store
    /\ ExistsAny(storage, last.labels).ok
    /\ Len(last.errs) = 2 /\ last.errs[1] = NotFound

\* C7: with a single caller, WriteAll(new, L) on a namespace whose queued
\* identifiers all resolve succeeds; afterwards SearchAll(L) returns exactly
\* the events of new in the given order and the payload of every event of old
\* (that is not among new) is no longer stored.
C7_WriteAllReplaces ==
    [][(/\ last'.op = "WriteAll" /\ namespaceFromLabels(last'.labels) # LabelWildcard
        /\ Range(ListOf(storage, namespaceFromLabels(last'.labels))) \subseteq DOMAIN storage.store) =>
           /\ last'.err = Nil
           /\ ListOf(storage', last'.namespace) = last'.arg
           /\ IF last'.arg = <<>>
              THEN SearchAll(storage', last'.labels).err = NotFound
              ELSE /\ SearchAll(storage', last'.labels).err = Nil
                   /\ LET found == SearchAll(storage', last'.labels).events
                      IN  /\ Len(found) = Len(last'.arg)
                          /\ \A i \in 1..Len(found) : found[i].payload = New(last'.arg[i]).payload
           /\ \A id \in Range(ListOf(storage, last'.namespace)) \ Range(last'.arg) :
                  id \notin DOMAIN storage'.store
      ]_vars

C9_SearchAllReadOnly ==
    [][(last'.op = "SearchAll" /\ ~Wildcard(last')) =>
           LET q == ListOf(storage, last'.namespace) IN
           /\ storage' = storage
           /\ IF q = <<>>
              THEN last'.err = NotFound /\ last'.events = <<>>
              ELSE IF Range(q) \subseteq DOMAIN storage.store
              THEN /\ last'.err = Nil
                   /\ Len(last'.events) = Len(q)
                   /\ \A i \in 1..Len(q) : last'.events[i].payload = storage.store[q[i]]
              ELSE last'.err = NotFound /\ last'.events = <<>>
      ]_vars

\* C9 witness: SearchAll returned the events of a queue of two identifiers.
C9_Witness ==
    /\ last.op = "SearchAll" /\ last.err = Nil
    /\ Len(last.events) = 2
    /\ Len(ListOf(storage, last.namespace)) = 2

\* C10: under a policy permitting k retries Search makes at most k + 1
\* attempts, stops at the first successful one and otherwise surfaces the
\* error of the last attempt; with k = 0 it makes exactly one attempt; a
\* wildcard Search against an empty system fails with NotFound.
C10_SearchTerminates ==
    [][last'.op = "Search" =>
           LET n == Len(last'.errs) IN
           /\ 1 <= n /\ n <= retries + 1
           /\ retries = 0 => n = 1
           /\ \A i \in 1..(n - 1) : last'.errs[i] # Nil
           /\ last'.err = last'.errs[n]
           /\ last'.err # Nil => n = retries + 1
           /\ (Wildcard(last') /\ storage = EmptyStorage) =>
                  (last'.err = NotFound /\ storage' = storage)
      ]_vars

\* C10 witness: a wildcard Search on an empty system used up its one retry
\* and failed with NotFound.
C10_Witness ==
    /\ last.op = "Search" /\ Wildcard(last)
    /\ storage = EmptyStorage
    /\ retries = 1 /\ Len(last.errs) = 2
    /\ last.err = NotFound

\* The call is one the service must reject: a namespace-addressed call other
\* than Search whose labels derive the wildcard namespace, Limit with a max
\* below one, PublishWithLabels without labels.
Misuse(call) ==
    \/ /\ call.op \in {"Create", "Delete", "ExistsAny", "Limit", "SearchAll", "WriteAll"}
       /\ namespaceFromLabels(call.labels) = LabelWildcard
    \/ call.op = "Limit" /\ call.max < 1
    \/ call.op = "PublishWithLabels" /\ Len(call.labels) = 0

\* C11: Create, Delete, ExistsAny, Limit, SearchAll and WriteAll called with
\* labels whose namespace is the wildcard, Limit called with max < 1 and
\* PublishWithLabels called without labels each return InvalidExecution and
\* leave the storage (lookup table, queues, label index, payloads) as it was.
C11_MisuseRejected ==
    [][Misuse(last') => last'.err = InvalidExecution /\ storage' = storage]_vars

\* WriteAll is handed the wildcard label while events are queued and stored.
C11_Witness ==
    /\ last.op = "WriteAll"
    /\ Wildcard(last)
    /\ last.arg # <<>>
    /\ last.err = InvalidExecution
    /\ storage.table # {}

\* ------------------------------------------------ namespace derivation
\* Two callers address the same service, each with a label list of its own:
\* one creates an event under its labels, the other looks for events under
\* its own.
LabelSeqs == UNION {[1..n -> {LabelA, LabelB, LabelAB}] : n \in 0..MaxLabels}

NsInit ==
    /\ storage = EmptyStorage
    /\ retries = 0
    /\ last = NoCall
    /\ kind = KindNetwork
    /\ published = {}
    /\ latch = NewLatch
    /\ \E l1, l2 \in LabelSeqs :
           procs = [creator |-> [labels |-> l1, pc |-> "Create", err |-> Nil,
                                 namespace |-> <<>>],
                    finder  |-> [labels |-> l2, pc |-> "ExistsAny", err |-> Nil,
                                 namespace |-> <<>>, ok |-> FALSE, all |-> <<>>,
                                 events |-> <<>>]]

\* The creator calls Create with the first event.
NsCreate ==
    /\ procs.creator.pc = "Create"
    /\ LET o == Create(storage, New(1), procs.creator.labels)
       IN  /\ storage' = o.st
           /\ procs' = [procs EXCEPT !.creator.pc = "done",
                                     !.creator.err = o.err,
                                     !.creator.namespace = o.namespace]
    /\ UNCHANGED <<retries, last, kind, published, latch>>

\* The finder calls ExistsAny, then SearchAll, then Search.
NsExistsAny ==
    /\ procs.creator.pc = "done"
    /\ procs.finder.pc = "ExistsAny"
    /\ LET r == ExistsAny(storage, procs.finder.labels)
       IN  procs' = [procs EXCEPT !.finder.pc = "SearchAll",
                                  !.finder.ok = r.ok,
                                  !.finder.namespace =
                                      namespaceFromLabels(procs.finder.labels)]
    /\ UNCHANGED <<storage, retries, last, kind, published, latch>>

NsSearchAll ==
    /\ procs.finder.pc = "SearchAll"
    /\ LET o == SearchAll(storage, procs.finder.labels)
       IN  /\ storage' = o.st
           /\ procs' = [procs EXCEPT !.finder.pc = "Search",
                                     !.finder.all = o.events]
    /\ UNCHANGED <<retries, last, kind, published, latch>>

NsSearch ==
    /\ procs.finder.pc = "Search"
    /\ \E o \in Search(storage, procs.finder.labels, retries) :
           /\ storage' = o.st
           /\ procs' = [procs EXCEPT !.finder.pc = "done",
                                     !.finder.err = o.err,
                                     !.finder.events = o.events]
    /\ UNCHANGED <<retries, last, kind, published, latch>>

NsNext == NsCreate \/ NsExistsAny \/ NsSearchAll \/ NsSearch

SpecNs == NsInit /\ [][NsNext]_vars

\* How often label l occurs in the list ls.
Count(l, ls) == Cardinality({i \in 1..Len(ls) : ls[i] = l})

\* The two lists hold the same labels equally often.
SameMultiset(l1, l2) ==
    \A l \in Range(l1) \cup Range(l2) : Count(l, l1) = Count(l, l2)

SearchKeepsPayload ==
    last.op = "Search" /\ last.err = Nil =>
        last.events[1].payload = New(Last(last.popped)).payload

\* C13: the event a successful Search returns has the ID and the payload of
\* the event that was passed to Create, so that Delete on the returned event
\* addresses the stored payload.
C13_SearchPreservesIdentity ==
    last.op = "Search" /\ last.err = Nil =>
        /\ last.events[1].id = Last(last.popped)
        /\ SearchKeepsPayload

\* The labels under which the event with this identifier is published, and
\* the identifiers of the events published under a label.
LabelsOf(id) == {p[2] : p \in {q \in published : q[1] = id}}
IDsUnder(label) == {p[1] : p \in {q \in published : q[2] = label}}

\* C14: when Delete is called on an event that was published with labels,
\* afterwards ExistsAnyWithLabel is false, and the list is gone, for each of
\* its labels under which no other undeleted event is published, it stays
\* true for each of its labels under which another one is, and the list of
\* the labels of the event is removed.
C14_DeleteCleansLabelIndex ==
    [][(kind = KindSignal /\ last'.op = "Delete" /\ LabelsOf(last'.arg[1]) # {}) =>
          /\ last'.err = Nil
          /\ \A l \in LabelsOf(last'.arg[1]) :
                 /\ ExistsAnyWithLabel(storage', l).ok
                        = (IDsUnder(l) \ {last'.arg[1]} # {})
                 /\ (IDsUnder(l) \ {last'.arg[1]} = {})
                        => LengthOfList(storage', labelKey(l)) = 0
          /\ ~Exists(storage', eventKey([id |-> last'.arg[1]]))]_vars

\* An event published under b and a has been deleted while another event is
\* still published under a: a's list exists, b's does not.
C14_Witness ==
    /\ kind = KindSignal
    /\ last.op = "Delete"
    /\ last.popped = <<LabelB, LabelA>>
    /\ IDsUnder(LabelA) # {}
    /\ ExistsAnyWithLabel(storage, LabelA).ok
    /\ ~ExistsAnyWithLabel(storage, LabelB).ok

\* C15: with one caller at a time, after any sequence of Publish,
\* PublishWithLabels, Consume and Delete, ExistsAnyWithLabel(l) is true exactly
\* when some event published under l has not been deleted since (Consume
\* leaves the label index alone), and no list exists that has length zero.
C15_LabelIndexInvariant ==
    kind = KindSignal =>
        /\ \A l \in Labels : ExistsAnyWithLabel(storage, l).ok = (IDsUnder(l) # {})
        /\ \A key \in DOMAIN storage.queue : LengthOfList(storage, key) # 0

\* An event published with labels has been consumed and not deleted: the
\* queue is empty, the lists of its labels are still there.
C15_Witness ==
    /\ kind = KindSignal
    /\ last.op = "Consume"
    /\ last.err = Nil
    /\ ~Exists(storage, queueKey)
    /\ IDsUnder(LabelB) # {}
    /\ ExistsAnyWithLabel(storage, LabelB).ok

Callers == {<<"caller", i>> : i \in 1..NCallers}
Workers == {<<s, op>> : s \in Services, op \in Ops}
Threads == Callers \cup Workers

\* Mutant of OnceOf: Shutdown is guarded by the latch of Boot.
OnceShared(target, op) == <<target, "boot">>

\* The latch that guards an operation: Boot runs inside bootOnce.Do, Shutdown
\* inside shutdownOnce.Do.
OnceOf(target, op) == <<target, op>>

\* Mutant of FanOutDone: the collection does not wait for its goroutines.
FanOutNotAwaited(l, op) == TRUE

\* wg.Wait() returns: every goroutine of the fan-out has called wg.Done().
FanOutDone(l, op) == l.wg[op] = 0

\* The function a service runs inside its latch: Boot has no logic of its
\* own, Shutdown closes the closer channel.
ServiceLogic(l, s, op) ==
    [l EXCEPT !.ran[<<s, op>>] = @ + 1,
              !.closed[s] = IF op = "shutdown" THEN @ + 1 ELSE @]

BootInit ==
    /\ storage = EmptyStorage
    /\ retries = 0
    /\ last = NoCall
    /\ kind = KindNetwork
    /\ published = {}
    /\ latch = NewLatch
    /\ procs = [t \in Threads |->
                  [pc |-> IF t \in Callers THEN "idle" ELSE "unborn",
                   target |-> IF t \in Callers THEN "none" ELSE t[1],
                   op |-> IF t \in Callers THEN "none" ELSE t[2]]]

services == <<storage, retries, last, kind, published>>

\* A caller calls Boot or Shutdown of the collection or of a service.
Call(t) ==
    /\ procs[t].pc = "idle"
    /\ \E target \in Targets, op \in Ops :
           procs' = [procs EXCEPT ![t] = [pc |-> "check", target |-> target,
                                          op |-> op]]
    /\ UNCHANGED <<latch, services>>

\* Once.Do: the fast path reads done.
DoCheck(t) ==
    /\ procs[t].pc = "check"
    /\ procs' = [procs EXCEPT ![t].pc =
                     IF latch.done[OnceOf(procs[t].target, procs[t].op)]
                     THEN "return" ELSE "lock"]
    /\ UNCHANGED <<latch, services>>

\* Once.doSlow: the mutex is taken and done is read again.
DoLock(t) ==
    LET o == OnceOf(procs[t].target, procs[t].op)
    IN  /\ procs[t].pc = "lock"
        /\ ~latch.m[o]
        /\ IF latch.done[o]
           THEN /\ procs' = [procs EXCEPT ![t].pc = "return"]
                /\ UNCHANGED latch
           ELSE /\ procs' = [procs EXCEPT ![t].pc = "run"]
                /\ latch' = [latch EXCEPT !.m[o] = TRUE]
        /\ UNCHANGED services

\* Inside the latch of a service: its boot or shutdown logic runs.
RunService(t) ==
    /\ procs[t].pc = "run"
    /\ procs[t].target \in Services
    /\ latch' = ServiceLogic(latch, procs[t].target, procs[t].op)
    /\ procs' = [procs EXCEPT ![t].pc = "unlock"]
    /\ UNCHANGED services

\* Inside the latch of the collection: one goroutine per service is started
\* and counted in the wait group.
FanOut(t) ==
    LET op == procs[t].op
    IN  /\ procs[t].pc = "run"
        /\ procs[t].target = "collection"
        /\ latch' = [latch EXCEPT !.ran[<<"collection", op>>] = @ + 1,
                                  !.wg[op] = Cardinality(Services)]
        /\ procs' = [u \in Threads |->
                        IF u = t THEN [procs[u] EXCEPT !.pc = "wait"]
                        ELSE IF u \in Workers /\ u[2] = op
                             THEN [procs[u] EXCEPT !.pc = "check"]
                             ELSE procs[u]]
        /\ UNCHANGED services

\* wg.Wait()
DoWait(t) ==
    /\ procs[t].pc = "wait"
    /\ FanOutDone(latch, procs[t].op)
    /\ procs' = [procs EXCEPT ![t].pc = "unlock"]
    /\ UNCHANGED <<latch, services>>

\* Once.doSlow returns: done is set, then the mutex released.
DoUnlock(t) ==
    LET o == OnceOf(procs[t].target, procs[t].op)
    IN  /\ procs[t].pc = "unlock"
        /\ latch' = [latch EXCEPT !.done[o] = TRUE, !.m[o] = FALSE]
        /\ procs' = [procs EXCEPT ![t].pc = "return"]
        /\ UNCHANGED services

\* The call of a caller has returned; the caller goes on with other work.
CallerReturn(t) ==
    /\ t \in Callers
    /\ procs[t].pc = "return"
    /\ procs' = [procs EXCEPT ![t].pc = "gone"]
    /\ UNCHANGED <<latch, services>>

\* The call of a goroutine has returned: wg.Done().
WorkerDone(t) ==
    /\ t \in Workers
    /\ procs[t].pc = "return"
    /\ latch' = [latch EXCEPT !.wg[procs[t].op] = @ - 1]
    /\ procs' = [procs EXCEPT ![t].pc = "terminated"]
    /\ UNCHANGED services

BootNext ==
    \E t \in Threads :
        \/ Call(t)
        \/ DoCheck(t)
        \/ DoLock(t)
        \/ RunService(t)
        \/ FanOut(t)
        \/ DoWait(t)
        \/ DoUnlock(t)
        \/ CallerReturn(t)
        \/ WorkerDone(t)

SpecBoot == BootInit /\ [][BootNext]_vars

\* The call of thread t has returned.
Returned(t) == procs[t].pc \in {"return", "gone", "terminated"}

\* What Boot and Shutdown of the services keep true: the logic of a latch has
\* run at most once, no closer is closed twice, and where a call has returned
\* the logic is complete and has run exactly once (the closer is closed once).
ServiceLatched ==
    /\ \A s \in Services, op \in Ops : latch.ran[<<s, op>>] <= 1
    /\ \A s \in Services : latch.closed[s] <= 1
    /\ \A t \in Threads :
           (Returned(t) /\ procs[t].target \in Services) =>
               /\ latch.done[<<procs[t].target, procs[t].op>>]
               /\ latch.ran[<<procs[t].target, procs[t].op>>] = 1
               /\ procs[t].op = "shutdown" => latch.closed[procs[t].target] = 1

\* C17: Boot and Shutdown of a service are idempotent under concurrent
\* callers: the boot logic runs at most once, the shutdown logic exactly once
\* (the closer is never closed twice), and a call made after the latch is
\* done returns without doing anything.
C17_BootShutdownOnce ==
    [][/\ ServiceLatched'
       /\ \A t \in Threads :
              (/\ procs[t].target \in Services
               /\ procs[t].pc = "check"
               /\ latch.done[<<procs[t].target, procs[t].op>>]
               /\ procs'[t] # procs[t])
                  => procs'[t].pc = "return" /\ latch' = latch]_vars

\* Two callers have called Shutdown of the network service, both calls have
\* returned, and the closer has been closed once.
C17_Witness ==
    /\ DOMAIN procs = Threads
    /\ \A t \in Callers :
           /\ procs[t].target = KindNetwork
           /\ procs[t].op = "shutdown"
           /\ Returned(t)
    /\ latch.closed[KindNetwork] = 1

\* What Boot and Shutdown of the collection keep true: no logic runs twice,
\* and where a call of the collection has returned, the goroutines of the
\* fan-out have all ended and the operation is complete on every service.
CollectionLatched ==
    /\ \A o \in Targets \X Ops : latch.ran[o] <= 1
    /\ \A t \in Callers :
           (Returned(t) /\ procs[t].target = "collection") =>
               /\ latch.wg[procs[t].op] = 0
               /\ \A s \in Services :
                      /\ procs[<<s, procs[t].op>>].pc = "terminated"
                      /\ latch.done[<<s, procs[t].op>>]

\* C18: Boot and Shutdown of the collection start the call on every bundled
\* service at once and return after all of them have finished; under
\* concurrent callers the logic of each constituent runs at most once, and no
\* caller returns before the fan-out the first caller started is complete.
C18_CollectionFanOut ==
    [][/\ CollectionLatched'
       /\ \A op \in Ops :
              latch'.ran[<<"collection", op>>] # latch.ran[<<"collection", op>>] =>
                  \A s \in Services : procs'[<<s, op>>].pc = "check"]_vars

\* Every caller has called Boot of the collection and has returned.
C18_Witness ==
    /\ DOMAIN procs = Threads
    /\ \A t \in Callers :
           /\ procs[t].target = "collection"
           /\ procs[t].op = "boot"
           /\ Returned(t)
    /\ \A s \in Services : latch.ran[<<s, "boot">>] = 1

\* ------------------------------------------- concurrent Create and Search
\* Concurrent callers of the namespace-addressed service.  A call is a
\* sequence of storage calls, each of them atomic, with nothing that holds
\* them together: one step below is one storage call of one caller.
Procs == 1..NProcs

\* A caller that has not called yet.  Beside the local variables of its call
\* it counts the attempts Search has failed and the times it has asked the
\* lookup table for a namespace, and keeps the identifiers its attempts have
\* popped.
IdleProc ==
    [pc |-> "idle", op |-> "none", labels |-> <<>>, namespace |-> <<>>,
     id |-> 0, ok |-> FALSE, attempts |-> 0, picks |-> 0, err |-> Nil,
     events |-> <<>>, all |-> <<>>, popped |-> <<>>]

\* The events with the identifiers 1..n.
FirstEvents(n) == [i \in 1..n |-> New(i)]

\* The callers start on a service on which events have been created under
\* label a, one after the other, before.
ConcInit ==
    /\ \E n \in 0..(MaxID - 1) :
           storage = Fill(EmptyStorage, FirstEvents(n), <<LabelA>>)
    /\ retries \in 0..MaxRetries
    /\ last = NoCall
    /\ kind = KindNetwork
    /\ published = {}
    /\ procs = [p \in Procs |-> IdleProc]
    /\ latch = NewLatch

quiet == <<retries, last, kind, published, latch>>

\* The first storage call of an attempt of Search: the lookup table is asked
\* only while the captured namespace is the wildcard.
FirstStep(namespace) ==
    IF namespace = LabelWildcard THEN "GetRandomFromSet" ELSE "PopFromList"

\* An attempt of Search failed with error e: backoff.RetryNotify runs the
\* closure again while the policy permits, else Search returns the error.
Failed(proc, e) ==
    IF proc.attempts < retries
    THEN [proc EXCEPT !.attempts = @ + 1, !.pc = FirstStep(proc.namespace)]
    ELSE [proc EXCEPT !.pc = "done", !.err = e]

\* Create is called with an event no one has created or is creating.
StartCreate(p) ==
    /\ procs[p].pc = "idle"
    /\ \E event \in Events, labels \in LabelArgs :
           /\ event.id \notin QueuedIDs(storage) \cup DOMAIN storage.store
                               \cup {procs[q].id : q \in Procs}
           /\ LET namespace == namespaceFromLabels(labels)
                  proc == [procs[p] EXCEPT !.op = "Create", !.labels = labels,
                                           !.namespace = namespace, !.id = event.id]
              IN  procs' = [procs EXCEPT ![p] =
                               IF namespace = LabelWildcard
                               THEN [proc EXCEPT !.pc = "done", !.err = InvalidExecution]
                               ELSE [proc EXCEPT !.pc = "PushToSet"]]
    /\ UNCHANGED <<storage, quiet>>

CreatePushToSet(p) ==
    /\ procs[p].op = "Create" /\ procs[p].pc = "PushToSet"
    /\ storage' = PushToSet(storage, procs[p].namespace)
    /\ procs' = [procs EXCEPT ![p].pc = "PushToList"]
    /\ UNCHANGED quiet

CreatePushToList(p) ==
    /\ procs[p].op = "Create" /\ procs[p].pc = "PushToList"
    /\ storage' = PushToList(storage, procs[p].namespace, procs[p].id)
    /\ procs' = [procs EXCEPT ![p].pc = "Set"]
    /\ UNCHANGED quiet

CreateSet(p) ==
    /\ procs[p].op = "Create" /\ procs[p].pc = "Set"
    /\ storage' = Set(storage, procs[p].id, New(procs[p].id).payload)
    /\ procs' = [procs EXCEPT ![p].pc = "done"]
    /\ UNCHANGED quiet

StartSearch(p) ==
    /\ procs[p].pc = "idle"
    /\ \E labels \in LabelArgs :
           LET namespace == namespaceFromLabels(labels)
           IN  procs' = [procs EXCEPT ![p] =
                            [@ EXCEPT !.op = "Search", !.labels = labels,
                                      !.namespace = namespace,
                                      !.pc = FirstStep(namespace)]]
    /\ UNCHANGED <<storage, quiet>>

SearchGetRandomFromSet(p) ==
    /\ procs[p].op = "Search" /\ procs[p].pc = "GetRandomFromSet"
    /\ \E r \in GetRandomFromSet(storage) :
           LET proc == [procs[p] EXCEPT !.namespace = r.val, !.picks = @ + 1]
           IN  procs' = [procs EXCEPT ![p] =
                            IF r.err # Nil THEN Failed(proc, r.err)
                            ELSE [proc EXCEPT !.pc = "PopFromList"]]
    /\ UNCHANGED <<storage, quiet>>

\* Mutant of SearchPopFromList: the head of the list is read and left queued.
SearchPeeksList(p) ==
    /\ procs[p].op = "Search" /\ procs[p].pc = "PopFromList"
    /\ LET r == PopFromList(storage, procs[p].namespace)
       IN  /\ storage' = storage
           /\ procs' = [procs EXCEPT ![p] =
                            IF r.err # Nil THEN Failed(@, r.err)
                            ELSE [@ EXCEPT !.id = r.val, !.pc = "ExistsAny",
                                           !.popped = Append(@, r.val)]]
    /\ UNCHANGED quiet

SearchPopFromList(p) ==
    /\ procs[p].op = "Search" /\ procs[p].pc = "PopFromList"
    /\ LET r == PopFromList(storage, procs[p].namespace)
       IN  /\ storage' = r.st
           /\ procs' = [procs EXCEPT ![p] =
                            IF r.err # Nil THEN Failed(@, r.err)
                            ELSE [@ EXCEPT !.id = r.val, !.pc = "ExistsAny",
                                           !.popped = Append(@, r.val)]]
    /\ UNCHANGED quiet

\* ExistsAny is asked with the labels of the caller.
SearchExistsAny(p) ==
    /\ procs[p].op = "Search" /\ procs[p].pc = "ExistsAny"
    /\ LET r == ExistsAny(storage, procs[p].labels)
       IN  procs' = [procs EXCEPT ![p] =
                        IF r.err # Nil THEN Failed(@, r.err)
                        ELSE [@ EXCEPT !.ok = r.ok,
                                       !.pc = IF r.ok THEN "Get" ELSE "RemoveFromSet"]]
    /\ UNCHANGED <<storage, quiet>>

SearchRemoveFromSet(p) ==
    /\ procs[p].op = "Search" /\ procs[p].pc = "RemoveFromSet"
    /\ storage' = RemoveDrained(storage, procs[p].ok, procs[p].namespace)
    /\ procs' = [procs EXCEPT ![p].pc = "Get"]
    /\ UNCHANGED quiet

\* The payload is fetched and decoded into a new event.
SearchGet(p) ==
    /\ procs[p].op = "Search" /\ procs[p].pc = "Get"
    /\ LET r == Get(storage, procs[p].id)
       IN  procs' = [procs EXCEPT ![p] =
                        IF r.err # Nil THEN Failed(@, r.err)
                        ELSE [@ EXCEPT !.pc = "done", !.err = Nil,
                                       !.events = <<UnmarshalJSON(New(GeneratedID(p)), r.val)>>]]
    /\ UNCHANGED <<storage, quiet>>

ConcNext ==
    \E p \in Procs :
        \/ StartCreate(p)
        \/ CreatePushToSet(p)
        \/ CreatePushToList(p)
        \/ CreateSet(p)
        \/ StartSearch(p)
        \/ SearchGetRandomFromSet(p)
        \/ SearchPopFromList(p)
        \/ SearchExistsAny(p)
        \/ SearchRemoveFromSet(p)
        \/ SearchGet(p)

SpecConc == ConcInit /\ [][ConcNext]_vars

\* Every caller has made its call with the labels ls, and every call is over.
AllDoneWith(ls) ==
    /\ DOMAIN procs = Procs
    /\ \A p \in Procs : procs[p].pc = "done" /\ procs[p].labels = ls

\* C19: when the concurrent callers all call Search with the same specific
\* labels L and pop identifiers of L's queue, several of them may see the
\* queue drained and each of those removes L from the lookup table; no call
\* that popped fails, each returns the payload stored under the identifier it
\* popped (no identifier is popped twice), and once one of them has seen the
\* queue drained, L's queue does not exist and L is not in the lookup table.
C19_ConcurrentDrain ==
    \A ls \in LabelArgs :
        (/\ namespaceFromLabels(ls) # LabelWildcard
         /\ AllDoneWith(ls)
         /\ \A p \in Procs : procs[p].op = "Search") =>
            /\ \A p \in Procs :
                   procs[p].id # 0 =>
                       /\ procs[p].err = Nil
                       /\ Len(procs[p].events) = 1
                       /\ procs[p].events[1].payload = Get(storage, procs[p].id).val
            /\ \A p, q \in Procs :
                   (p # q /\ procs[p].id # 0) => procs[p].id # procs[q].id
            /\ (\E p \in Procs : procs[p].id # 0 /\ ~procs[p].ok) =>
                   /\ ~Exists(storage, namespaceFromLabels(ls))
                   /\ namespaceFromLabels(ls) \notin storage.table

\* Every caller has called Search under label a, popped an identifier, seen the
\* queue drained and removed a from the lookup table.
C19_Witness ==
    /\ AllDoneWith(<<LabelA>>)
    /\ \A p \in Procs :
           /\ procs[p].op = "Search"
           /\ procs[p].id # 0
           /\ ~procs[p].ok
           /\ procs[p].err = Nil

\* C20: when callers of Create and of Search with the same specific labels L
\* run concurrently, in any interleaving of their storage calls, once all of
\* them are over L is in the lookup table whenever L's queue is not empty.
C20_CreateSearchRace ==
    \A ls \in LabelArgs :
        (/\ namespaceFromLabels(ls) # LabelWildcard
         /\ AllDoneWith(ls)
         /\ \E p \in Procs : procs[p].op = "Create"
         /\ \E p \in Procs : procs[p].op = "Search") =>
            (Exists(storage, namespaceFromLabels(ls))
                 => namespaceFromLabels(ls) \in storage.table)

\* C23: every attempt of a Search called with the wildcard label picks its
\* namespace anew from the lookup table: a caller that is past the selection
\* of its n-th attempt has asked the lookup table n times.
C23_RetryPicksAnew ==
    \A p \in DOMAIN procs :
        (/\ procs[p].op = "Search"
         /\ procs[p].labels = <<LabelWildcard>>
         /\ procs[p].pc \in {"PopFromList", "ExistsAny", "RemoveFromSet", "Get"})
            => procs[p].picks = procs[p].attempts + 1

\* What holds instead: a Search called with the wildcard label asks the lookup
\* table on its first attempt only.
WildcardPickedOnce ==
    \A p \in DOMAIN procs :
        (procs[p].op = "Search" /\ procs[p].labels = <<LabelWildcard>>)
            => procs[p].picks <= 1

\* C24: WriteAll drains before it fills.  When it succeeds, every identifier
\* that was queued under the labels has been popped and the queue holds the
\* new events, in order.  When its drain fails, it returns that failure, no
\* new event is queued or stored, and the identifiers popped so far stay out
\* of the queue, whose rest is as it was.
C24_WriteAllDrainsFirst ==
    [][(last'.op = "WriteAll" /\ ~Wildcard(last')) =>
          LET ns == namespaceFromLabels(last'.labels)
              q  == ListOf(storage, ns)
              n  == Len(last'.popped)
          IN  /\ last'.popped = SubSeq(q, 1, n)
              /\ last'.err = Nil =>
                     /\ n = Len(q)
                     /\ ListOf(storage', ns) = last'.arg
              /\ last'.err # Nil =>
                     /\ ListOf(storage', ns) = SubSeq(q, n + 1, Len(q))
                     /\ Range(last'.arg) \cap
                            (QueuedIDs(storage') \cup DOMAIN storage'.store) = {}]_vars

\* WriteAll, handed new events, has failed on an identifier without payload
\* that it popped.
C24_Witness ==
    /\ last.op = "WriteAll"
    /\ last.err = NotFound
    /\ last.popped # <<>>
    /\ last.arg # <<>>

\* C25: label lists that differ as sets of labels derive different
\* namespaces, so an event created under the one is not seen by ExistsAny,
\* SearchAll or Search under the other.
C25_NamespaceIsolation ==
    Range(procs.creator.labels) # Range(procs.finder.labels) =>
        /\ namespaceFromLabels(procs.creator.labels)
               # namespaceFromLabels(procs.finder.labels)
        /\ procs.finder.pc # "ExistsAny" => ~procs.finder.ok
        /\ procs.finder.all = <<>>
        /\ procs.finder.events = <<>>

\* ------------------------------------------------- the Delete contract
\* The single caller keeps the contract of Delete: it calls Delete only on
\* the event the Search it just made has returned.
DeleteReturnedCall ==
    \E event \in Range(last.events), labels \in LabelArgs :
        /\ kind \in Services
        /\ last.op = "Search"
        /\ LET o == Delete(storage, event, labels)
           IN  /\ storage' = o.st
               /\ last' = Done("Delete", labels, <<event.id>>, 0, o)
        /\ UNCHANGED settings

ContractNext ==
    \/ CreateCall
    \/ DeleteReturnedCall
    \/ ExistsAnyCall
    \/ LimitCall
    \/ SearchCall
    \/ SearchAllCall
    \/ WriteAllCall
    \/ Return

SpecContract == Init /\ [][ContractNext]_vars

\* C27: while Delete is called only on events Search has returned, every
\* identifier held in a namespace queue has a stored payload, so a Search with
\* specific labels on an existing queue succeeds on its first attempt.
C27_NoDanglingIdentifiers ==
    [][/\ QueuedIDs(storage') \subseteq DOMAIN storage'.store
       /\ (/\ last'.op = "Search"
           /\ ~Wildcard(last')
           /\ Exists(storage, namespaceFromLabels(last'.labels)))
              => last'.err = Nil /\ last'.errs = <<Nil>>]_vars

\* Delete has been called on the event Search returned while identifiers are
\* still queued.
C27_Witness ==
    /\ last.op = "Delete"
    /\ last.err = Nil
    /\ QueuedIDs(storage) # {}

\* C28: no payload is left behind: the payloads of the identifiers Limit
\* discards do not remain stored, and after a Search followed by Delete of the
\* event it returned the payload of the identifier Search popped is gone.
C28_NoOrphanedPayloads ==
    [][/\ (last'.op = "Limit" /\ last'.err = Nil) =>
              Range(last'.popped) \cap DOMAIN storage'.store = {}
       /\ (/\ last.op = "Search" /\ last.err = Nil
           /\ last'.op = "Delete" /\ last'.err = Nil) =>
              Last(last.popped) \notin DOMAIN storage'.store]_vars

\* ------------------------------------------ concurrent Search and SearchAll
\* service.SearchAll as the sequence of its storage calls, beside callers of
\* Search: the existence test, the read of the list and the read of each
\* payload are storage calls of their own.
StartSearchAll(p) ==
    /\ procs[p].pc = "idle"
    /\ \E labels \in LabelArgs :
           LET namespace == namespaceFromLabels(labels)
               proc == [procs[p] EXCEPT !.op = "SearchAll", !.labels = labels,
                                        !.namespace = namespace]
           IN  procs' = [procs EXCEPT ![p] =
                            IF namespace = LabelWildcard
                            THEN [proc EXCEPT !.pc = "done", !.err = InvalidExecution]
                            ELSE [proc EXCEPT !.pc = "ExistsAny"]]
    /\ UNCHANGED <<storage, quiet>>

\* A namespace without events is reported as not found.
SearchAllExistsAny(p) ==
    /\ procs[p].op = "SearchAll" /\ procs[p].pc = "ExistsAny"
    /\ LET r == ExistsAny(storage, procs[p].labels)
       IN  procs' = [procs EXCEPT ![p] =
                        IF r.err # Nil THEN [@ EXCEPT !.pc = "done", !.err = r.err]
                        ELSE IF ~r.ok THEN [@ EXCEPT !.pc = "done", !.err = NotFound]
                        ELSE [@ EXCEPT !.ok = TRUE, !.pc = "GetAllFromList"]]
    /\ UNCHANGED <<storage, quiet>>

\* The identifiers are read; the loop over no identifiers returns at once.
SearchAllGetAllFromList(p) ==
    /\ procs[p].op = "SearchAll" /\ procs[p].pc = "GetAllFromList"
    /\ LET eventIDs == GetAllFromList(storage, procs[p].namespace)
       IN  procs' = [procs EXCEPT ![p] =
                        IF eventIDs = <<>>
                        THEN [@ EXCEPT !.pc = "done", !.err = Nil]
                        ELSE [@ EXCEPT !.all = eventIDs, !.pc = "Get"]]
    /\ UNCHANGED <<storage, quiet>>

\* One pass of the loop: the payload of the next identifier is fetched and
\* decoded into a new event; the first failure ends the call.
SearchAllGet(p) ==
    /\ procs[p].op = "SearchAll" /\ procs[p].pc = "Get"
    /\ LET rawEvent == Get(storage, Head(procs[p].all))
           events == Append(procs[p].events,
                            UnmarshalJSON(New(GeneratedID(Len(procs[p].events) + 1)),
                                          rawEvent.val))
       IN  procs' = [procs EXCEPT ![p] =
                        IF rawEvent.err # Nil
                        THEN [@ EXCEPT !.pc = "done", !.err = rawEvent.err,
                                       !.events = <<>>]
                        ELSE [@ EXCEPT !.all = Tail(@), !.events = events,
                                       !.pc = IF Tail(procs[p].all) = <<>>
                                              THEN "done" ELSE "Get"]]
    /\ UNCHANGED <<storage, quiet>>

AllNext ==
    \E p \in Procs :
        \/ StartSearch(p)
        \/ SearchGetRandomFromSet(p)
        \/ SearchPopFromList(p)
        \/ SearchExistsAny(p)
        \/ SearchRemoveFromSet(p)
        \/ SearchGet(p)
        \/ StartSearchAll(p)
        \/ SearchAllExistsAny(p)
        \/ SearchAllGetAllFromList(p)
        \/ SearchAllGet(p)

SpecAll == ConcInit /\ [][AllNext]_vars

\* C21: SearchAll never reports success with no events: in every interleaving
\* with concurrent Search calls, a SearchAll that is over has failed or
\* returns at least one event.
C21_SearchAllNeverEmpty ==
    \A p \in DOMAIN procs :
        (procs[p].op = "SearchAll" /\ procs[p].pc = "done")
            => (procs[p].err # Nil \/ procs[p].events # <<>>)

\* C26: an identifier queued by one Create is popped by at most one attempt
\* of the concurrent Search calls: no identifier appears twice among the
\* identifiers the attempts of the callers have popped.
C26_NoDuplicateDelivery ==
    \A p, q \in DOMAIN procs :
        \A i \in DOMAIN procs[p].popped, j \in DOMAIN procs[q].popped :
            (p # q \/ i # j) => procs[p].popped[i] # procs[q].popped[j]

\* Two callers of Search with the same specific labels have each popped an
\* identifier and returned.
C26_Witness ==
    /\ AllDoneWith(<<LabelA>>)
    /\ \E p, q \in Procs :
           /\ p # q
           /\ procs[p].op = "Search" /\ procs[q].op = "Search"
           /\ procs[p].popped # <<>> /\ procs[q].popped # <<>>
           /\ procs[p].err = Nil /\ procs[q].err = Nil

\* ------------------------------- concurrent Delete and PublishWithLabels
\* Concurrent callers of the label-addressed service, each working on an event
\* of its own.  One step is one storage call of one caller; `all` holds the
\* labels the running loop of the caller has still to visit.
LabelConcInit ==
    /\ kind = KindSignal
    /\ \E labels \in LabelLists :
           storage = PublishWithLabels(EmptyStorage, New(1), labels).st
    /\ retries = 0
    /\ last = NoCall
    /\ published = {}
    /\ procs = [p \in Procs |-> IdleProc]
    /\ latch = NewLatch

\* No other caller has a call on the event.
Own(p, event) == \A q \in Procs \ {p} : procs[q].id # event.id

StartDelete(p) ==
    /\ procs[p].pc = "idle"
    /\ \E event \in Events :
           /\ Own(p, event)
           /\ procs' = [procs EXCEPT ![p] =
                            [@ EXCEPT !.op = "Delete", !.id = event.id,
                                      !.pc = "RemoveFromQueue"]]
    /\ UNCHANGED <<storage, quiet>>

DeleteRemoveFromQueue(p) ==
    /\ procs[p].op = "Delete" /\ procs[p].pc = "RemoveFromQueue"
    /\ storage' = RemoveFromList(storage, queueKey, MarshalJSON(New(procs[p].id)))
    /\ procs' = [procs EXCEPT ![p].pc = "GetAllFromList"]
    /\ UNCHANGED quiet

\* The labels of the event are read; the loop runs over them.
DeleteGetAllFromList(p) ==
    /\ procs[p].op = "Delete" /\ procs[p].pc = "GetAllFromList"
    /\ LET labels == GetAllFromList(storage, eventKey(New(procs[p].id)))
       IN  procs' = [procs EXCEPT ![p] =
                        [@ EXCEPT !.labels = labels, !.all = labels,
                                  !.pc = IF labels = <<>> THEN "Remove"
                                         ELSE "RemoveFromList"]]
    /\ UNCHANGED <<storage, quiet>>

DeleteRemoveFromList(p) ==
    /\ procs[p].op = "Delete" /\ procs[p].pc = "RemoveFromList"
    /\ storage' = RemoveFromList(storage, labelKey(Head(procs[p].all)), procs[p].id)
    /\ procs' = [procs EXCEPT ![p].pc = "LengthOfList"]
    /\ UNCHANGED quiet

\* The position after one pass of the loop of Delete.
NextLabel(proc) ==
    [proc EXCEPT !.all = Tail(@),
                 !.pc = IF Tail(proc.all) = <<>> THEN "Remove" ELSE "RemoveFromList"]

\* A list that still has identifiers is kept: the loop continues.
DeleteLengthOfList(p) ==
    /\ procs[p].op = "Delete" /\ procs[p].pc = "LengthOfList"
    /\ LET len == LengthOfList(storage, labelKey(Head(procs[p].all)))
       IN  procs' = [procs EXCEPT ![p] =
                        IF len # 0 THEN NextLabel(@)
                        ELSE [@ EXCEPT !.pc = "RemoveLabel"]]
    /\ UNCHANGED <<storage, quiet>>

DeleteRemoveLabel(p) ==
    /\ procs[p].op = "Delete" /\ procs[p].pc = "RemoveLabel"
    /\ storage' = RemoveList(storage, labelKey(Head(procs[p].all)))
    /\ procs' = [procs EXCEPT ![p] = NextLabel(@)]
    /\ UNCHANGED quiet

DeleteRemove(p) ==
    /\ procs[p].op = "Delete" /\ procs[p].pc = "Remove"
    /\ storage' = RemoveList(storage, eventKey(New(procs[p].id)))
    /\ procs' = [procs EXCEPT ![p].pc = "done"]
    /\ UNCHANGED quiet

\* PublishWithLabels is called with an event that carries no labels.
StartPublishWithLabels(p) ==
    /\ procs[p].pc = "idle"
    /\ \E event \in Events, labels \in LabelLists :
           /\ Own(p, event)
           /\ ~Exists(storage, eventKey(event))
           /\ LET proc == [procs[p] EXCEPT !.op = "PublishWithLabels",
                                           !.id = event.id, !.labels = labels]
              IN  procs' = [procs EXCEPT ![p] =
                               IF Len(labels) = 0
                               THEN [proc EXCEPT !.pc = "done", !.err = InvalidExecution]
                               ELSE [proc EXCEPT !.pc = "Publish"]]
    /\ UNCHANGED <<storage, quiet>>

PublishWithLabelsPublish(p) ==
    /\ procs[p].op = "PublishWithLabels" /\ procs[p].pc = "Publish"
    /\ storage' = Publish(storage, New(procs[p].id)).st
    /\ procs' = [procs EXCEPT ![p] = [@ EXCEPT !.all = procs[p].labels, !.pc = "PushLabel"]]
    /\ UNCHANGED quiet

\* One pass of the first loop: a label is appended to the list of the event.
PublishWithLabelsPushLabel(p) ==
    /\ procs[p].op = "PublishWithLabels" /\ procs[p].pc = "PushLabel"
    /\ storage' = PushToList(storage, eventKey(New(procs[p].id)), Head(procs[p].all))
    /\ procs' = [procs EXCEPT ![p] =
                     IF Tail(@.all) = <<>>
                     THEN [@ EXCEPT !.all = procs[p].labels, !.pc = "PushID"]
                     ELSE [@ EXCEPT !.all = Tail(@)]]
    /\ UNCHANGED quiet

\* One pass of the second loop: the identifier is appended to the list of a
\* label.
PublishWithLabelsPushID(p) ==
    /\ procs[p].op = "PublishWithLabels" /\ procs[p].pc = "PushID"
    /\ storage' = PushToList(storage, labelKey(Head(procs[p].all)), procs[p].id)
    /\ procs' = [procs EXCEPT ![p] =
                     [@ EXCEPT !.all = Tail(@),
                               !.pc = IF Tail(procs[p].all) = <<>> THEN "done"
                                      ELSE "PushID"]]
    /\ UNCHANGED quiet

LabelConcNext ==
    \E p \in Procs :
        \/ StartDelete(p)
        \/ DeleteRemoveFromQueue(p)
        \/ DeleteGetAllFromList(p)
        \/ DeleteRemoveFromList(p)
        \/ DeleteLengthOfList(p)
        \/ DeleteRemoveLabel(p)
        \/ DeleteRemove(p)
        \/ StartPublishWithLabels(p)
        \/ PublishWithLabelsPublish(p)
        \/ PublishWithLabelsPushLabel(p)
        \/ PublishWithLabelsPushID(p)

SpecLabelConc == LabelConcInit /\ [][LabelConcNext]_vars

\* C22: when Delete of an event e1 found under label l runs concurrently with
\* PublishWithLabels of another event e2 under l, and no other caller has
\* called, then in any interleaving of their storage calls, once both are
\* over, ExistsAnyWithLabel(l) is true and the list of l holds e2.
C22_DeletePublishRace ==
    \A p, q \in DOMAIN procs : \A l \in Labels :
        (/\ procs[p].op = "Delete" /\ procs[p].pc = "done"
         /\ procs[q].op = "PublishWithLabels" /\ procs[q].pc = "done"
         /\ procs[q].err = Nil
         /\ \A r \in DOMAIN procs \ {p, q} : procs[r].pc = "idle"
         /\ l \in Range(procs[p].labels)
         /\ l \in Range(procs[q].labels)) =>
            /\ ExistsAnyWithLabel(storage, l).ok
            /\ procs[q].id \in Range(ListOf(storage, labelKey(l)))

====
